---- MODULE Spec2Model ----
(***************************************************************************)
(* Model of wible (src/src/lib.rs): the CharacteristicIO byte stream over  *)
(* one GATT characteristic, and the AdvertisementWatcher stream.  The      *)
(* platform (WinRT Bluetooth stack) is the environment: every platform     *)
(* call that returns a winrt::Result may fail, the device may send         *)
(* value-changed notifications while its client characteristic             *)
(* configuration descriptor (CCCD) is set to Notify, and a started watcher *)
(* dispatches the advertisements it receives.  A behaviour of Spec         *)
(* exercises one object: a CharacteristicIO handle or an                   *)
(* AdvertisementWatcher.  SpecWrite adds the platform's completion of the  *)
(* write operations a handle starts; SpecAddress parses and formats one    *)
(* BluetoothAddress text; SpecFlags decodes one property mask.             *)
(***************************************************************************)
EXTENDS Integers, Sequences, FiniteSets, TLC

\* ---------------------------------------------------------------- bounds
MaxPayload == 2     \* longest value / notification payload / write slice
MaxCaller == 2      \* longest caller buffer handed to read
MaxOps == 2         \* read / write / flush calls on one handle
MaxNotify == 2      \* payloads the handler sends on tx over a handle's life
MaxAdv == 3         \* advertisements the platform dispatches to one watcher
MaxSegments == 7    \* most segments of a generated address text
MaxMask == 2047     \* every mask up to it is decoded

\* u8 arithmetic
U8 == 256

\* Option<T> is a sequence of length 0 (None) or 1 (Some)
None == <<>>
Some(v) == <<v>>

Min(a, b) == IF a <= b THEN a ELSE b

\* ------------------------------------------------- CharacteristicProperties
BROADCAST == 1
READ == 2
WRITE_WITHOUT_RESPONSE == 4
WRITE == 8
NOTIFY == 16
INDICATE == 32
AUTHENTICATED_SIGNED_WRITES == 64
EXTENDED_PROPERTIES == 128
RELIABLE_WRITES == 256
WRITABLE_AUXILIARIES == 512

\* union of the ten flags declared in the bitflags! block
AllFlags == BROADCAST + READ + WRITE_WITHOUT_RESPONSE + WRITE + NOTIFY
            + INDICATE + AUTHENTICATED_SIGNED_WRITES + EXTENDED_PROPERTIES
            + RELIABLE_WRITES + WRITABLE_AUXILIARIES

RECURSIVE BitAnd(_, _)
BitAnd(a, b) ==
    IF a = 0 \/ b = 0 THEN 0
    ELSE (a % 2) * (b % 2) + 2 * BitAnd(a \div 2, b \div 2)

\* variant: from_bits_truncate, undeclared bits dropped
from_bits_truncate(bits) == Some(BitAnd(bits, AllFlags))

\* bitflags from_bits: None when a bit outside the declared flags is set
from_bits(bits) ==
    IF bits - BitAnd(bits, AllFlags) = 0 THEN Some(bits) ELSE None

\* bitflags contains: every bit of other is set in self
contains(self, other) == BitAnd(self, other) = other

\* raw masks the platform may report: READ, WRITE, NOTIFY in every
\* combination, and one mask with an undeclared bit (1024)
RawPropsInputs ==
    {r * READ + w * WRITE + n * NOTIFY : r \in {0, 1}, w \in {0, 1}, n \in {0, 1}}
    \cup {READ + WRITE + NOTIFY + 1024}

VARIABLES
    rawProps,         \* GattCharacteristicProperties ABI value of the characteristic
    phase,            \* "absent" | "unbuilt" | "configuring" | "live" | "failed" | "dropped"
    buf,              \* CharacteristicIO.buf
    hasRx,            \* CharacteristicIO.rx.is_some()
    chan,             \* payloads queued in the mpsc channel (tx -> rx)
    handlerInstalled, \* value_changed(handler) has been registered
    deviceCccd,       \* CCCD value held by the device: "None" | "Notify"
    cccdWrites,       \* log of CCCD write attempts: [value, ok]
    valueReads,       \* number of read_value_with_cache_mode_async calls
    valueWrites,      \* number of write_value_async calls
    writesPending,    \* write operations issued and not yet finished
    writesFailed,     \* write operations that finished with a failure
    delivered,        \* all bytes copied to callers, in order
    acquired,         \* all bytes extended into buf, in order
    produced,         \* number of value bytes the device has produced so far
    enqueued,         \* payloads the handler has sent on tx so far
    notifyLost,       \* a notification was dispatched with no handler installed
    errorLogs,        \* log::error! lines emitted: set of tags
    steps,            \* read / write / flush calls made so far
    last,             \* record of the last operation
    wPhase,           \* AdvertisementWatcher: "absent" | "unbuilt" | "running" |
                      \*   "failed" | "stopping" | "released"
    wStatus,          \* platform watcher: "created" | "started" | "stopped"
    wHandler,         \* the received handler (owner of tx) is registered
    wQueue,           \* advertisements queued in the mpsc channel (tx -> rx)
    wSent,            \* all advertisements the handler has sent on tx, in order
    wTaken,           \* all advertisements next() has returned, in order
    advSeen,          \* advertisements the platform has dispatched so far
    wStarts,          \* calls of watcher.start()
    wStops,           \* calls of watcher.stop()
    wLogs,            \* log::error! lines of the watcher: set of tags
    wLast,            \* record of the watcher's last operation
    addrText,         \* the text handed to BluetoothAddress::from_str
    addrParsed,       \* its result, once from_str has returned
    addrShown,        \* hex_string() of the parsed address, once called
    decoded           \* result of Characteristic::properties, once called

\* the state of the AdvertisementWatcher and of its platform watcher
wVars == <<wPhase, wStatus, wHandler, wQueue, wSent, wTaken, advSeen,
           wStarts, wStops, wLogs, wLast>>

\* the arguments and results of the functions called on their own
pureVars == <<addrText, addrParsed, addrShown, decoded>>

\* what no operation of a CharacteristicIO touches
nonIoVars == <<wVars, pureVars>>

\* the state of the CharacteristicIO handle, its characteristic and device
ioVars == <<rawProps, phase, buf, hasRx, chan, handlerInstalled, deviceCccd,
            cccdWrites, valueReads, valueWrites, writesPending, writesFailed,
            delivered, acquired, produced, enqueued, notifyLost, errorLogs,
            steps, last>>

\* what no operation of an AdvertisementWatcher touches
nonWatcherVars == <<ioVars, pureVars>>

vars == <<ioVars, wVars, pureVars>>

\* a result that is not there yet / a function that has not been called
Unset == [tag |-> "unset"]

WNoOp ==
    [op |-> "none", res |-> "none", item |-> None, queueBefore |-> <<>>,
     senderBefore |-> FALSE]

NoOp ==
    [op |-> "none", res |-> "none", propsOk |-> TRUE, len |-> 0, ret |-> 0,
     out |-> <<>>, data |-> <<>>, bufBefore |-> <<>>, chanBefore |-> <<>>,
     fetches |-> 0, waits |-> 0, polls |-> 0, pwrites |-> 0, cccd |-> 0,
     got |-> None, sent |-> None, arrived |-> FALSE]

\* The device's values are successive bytes of one stream, so that every
\* byte it hands out is told apart from the others: the next value of
\* length k
NextPayload(k) == [i \in 1..k |-> (produced + i) % U8]

\* the bytes of a caller's slice of length k
CallerBytes(k) == [i \in 1..k |-> i % U8]

\* Characteristic::properties: None when the platform call fails or the
\* mask does not decode
properties(callOk) == IF callOk THEN from_bits(rawProps) ELSE None

\* the watcher side of the initial state: no watcher takes part in the
\* behaviour ("absent"), or one is about to be built ("unbuilt")
WatcherInit(ph) ==
    /\ wPhase = ph
    /\ wStatus = "created"
    /\ wHandler = FALSE
    /\ wQueue = <<>>
    /\ wSent = <<>>
    /\ wTaken = <<>>
    /\ advSeen = 0
    /\ wStarts = 0
    /\ wStops = 0
    /\ wLogs = {}
    /\ wLast = WNoOp

\* the handle side of the initial state: no handle takes part in the
\* behaviour ("absent"), or one is about to be built ("unbuilt")
IoInit(ph) ==
    /\ phase = ph
    /\ buf = <<>>
    /\ hasRx = FALSE
    /\ chan = <<>>
    /\ handlerInstalled = FALSE
    /\ deviceCccd = "None"
    /\ cccdWrites = <<>>
    /\ valueReads = 0
    /\ valueWrites = 0
    /\ writesPending = 0
    /\ writesFailed = 0
    /\ delivered = <<>>
    /\ acquired = <<>>
    /\ produced = 0
    /\ enqueued = 0
    /\ notifyLost = FALSE
    /\ errorLogs = {}
    /\ steps = 0
    /\ last = NoOp

\* no address is parsed and no mask decoded on its own
PureIdle ==
    /\ addrText = <<>>
    /\ addrParsed = Unset
    /\ addrShown = Unset
    /\ decoded = Unset

\* the behaviour is that of a CharacteristicIO over a characteristic with
\* one of the masks, or that of an AdvertisementWatcher
Init ==
    /\ \/ /\ rawProps \in RawPropsInputs
          /\ IoInit("unbuilt")
          /\ WatcherInit("absent")
       \/ /\ rawProps = 0
          /\ IoInit("absent")
          /\ WatcherInit("unbuilt")
    /\ PureIdle

\* outcomes of write_client_characteristic_configuration_descriptor_async(v)
\* followed by .get(): the request may fail, the operation may fail, or it
\* completes
CccdOutcomes == {"request_err", "get_err", "ok"}

\* ------------------------------------------------------ CharacteristicIO::new
\* variant: the check tests the wrong flag
ReadChecksWriteFlag(props) == props # None /\ ~contains(props[1], WRITE)

\* the capability check at the top of read
ReadLacksCapability(props) == props # None /\ ~contains(props[1], READ)

\* variant: an undecoded mask also subscribes
WantsNotifyOrUndecoded(props) == props = None \/ contains(props[1], NOTIFY)

\* the match in new: notifications are configured only for Some(props)
\* containing NOTIFY
WantsNotify(props) == props # None /\ contains(props[1], NOTIFY)

\* new + the first half of configure_notify (channel, handler closure,
\* enable-notify write), given the outcome of the properties call
NewFrom(pOk) ==
    \E w \in CccdOutcomes :
        IF WantsNotify(properties(pOk))
        THEN /\ cccdWrites' = Append(cccdWrites, [value |-> "Notify", ok |-> (w = "ok")])
             /\ deviceCccd' = IF w = "ok" THEN "Notify" ELSE deviceCccd
             /\ phase' = IF w = "ok" THEN "configuring" ELSE "failed"
             /\ last' = [NoOp EXCEPT !.op = "new", !.propsOk = pOk, !.cccd = 1,
                                     !.res = IF w = "ok" THEN "pending" ELSE "err"]
             /\ UNCHANGED hasRx
        ELSE /\ hasRx' = FALSE
             /\ phase' = "live"
             /\ last' = [NoOp EXCEPT !.op = "new", !.propsOk = pOk, !.res = "ok"]
             /\ UNCHANGED <<cccdWrites, deviceCccd>>

\* variant: a constructor that refuses a characteristic without READ
NewRequiringRead ==
    /\ phase = "unbuilt"
    /\ \E pOk \in BOOLEAN :
        IF ReadLacksCapability(properties(pOk))
        THEN /\ phase' = "failed"
             /\ last' = [NoOp EXCEPT !.op = "new", !.propsOk = pOk, !.res = "panic"]
             /\ UNCHANGED <<cccdWrites, deviceCccd, hasRx>>
        ELSE NewFrom(pOk)
    /\ buf' = <<>>
    /\ UNCHANGED <<rawProps, chan, handlerInstalled, valueReads, valueWrites,
                   delivered, acquired, produced, enqueued, notifyLost,
                   errorLogs, steps>>
    /\ UNCHANGED <<writesPending, writesFailed>>
    /\ UNCHANGED nonIoVars

New ==
    /\ phase = "unbuilt"
    /\ \E pOk \in BOOLEAN : NewFrom(pOk)
    /\ buf' = <<>>
    /\ UNCHANGED <<rawProps, chan, handlerInstalled, valueReads, valueWrites,
                   delivered, acquired, produced, enqueued, notifyLost,
                   errorLogs, steps>>
    /\ UNCHANGED <<writesPending, writesFailed>>
    /\ UNCHANGED nonIoVars

\* second half of configure_notify: characteristic.value_changed(handler)?
Register ==
    /\ phase = "configuring"
    /\ \E ok \in BOOLEAN :
        IF ok
        THEN /\ handlerInstalled' = TRUE
             /\ hasRx' = TRUE
             /\ phase' = "live"
             /\ chan' = chan
             /\ last' = [NoOp EXCEPT !.op = "register", !.res = "ok"]
        ELSE /\ phase' = "failed"
             /\ chan' = <<>>
             /\ last' = [NoOp EXCEPT !.op = "register", !.res = "err"]
             /\ UNCHANGED <<handlerInstalled, hasRx>>
    /\ UNCHANGED <<rawProps, buf, deviceCccd, cccdWrites, valueReads,
                   valueWrites, delivered, acquired, produced, enqueued,
                   notifyLost, errorLogs,
                   steps>>
    /\ UNCHANGED <<writesPending, writesFailed>>
    /\ UNCHANGED nonIoVars

\* ------------------------------------------------------- value-changed event
\* The device sends a notification while its CCCD is Notify; the platform
\* dispatches it to the registered handler (the closure built in
\* configure_notify), which decodes the value and sends it on tx.
RxAlive == phase = "live" /\ hasRx

Notification ==
    /\ deviceCccd = "Notify"
    /\ \E decodeOk \in BOOLEAN :
        IF ~handlerInstalled
        THEN /\ notifyLost' = TRUE
             /\ last' = [NoOp EXCEPT !.op = "notify", !.res = "lost"]
             /\ UNCHANGED <<chan, errorLogs, produced, enqueued>>
        ELSE IF ~decodeOk
        THEN \* characteristic_value()? / from_buffer? / length()? / read_bytes?
             /\ last' = [NoOp EXCEPT !.op = "notify", !.res = "err"]
             /\ UNCHANGED <<chan, errorLogs, notifyLost, produced, enqueued>>
        ELSE IF RxAlive
        THEN /\ enqueued < MaxNotify
             /\ enqueued' = enqueued + 1
             /\ \E k \in 0..MaxPayload :
                  /\ chan' = Append(chan, NextPayload(k))
                  /\ produced' = produced + k
             /\ last' = [NoOp EXCEPT !.op = "notify", !.res = "ok"]
             /\ UNCHANGED <<errorLogs, notifyLost>>
        ELSE \* tx.send fails: receiver dropped
             /\ errorLogs' = errorLogs \cup {"send"}
             /\ last' = [NoOp EXCEPT !.op = "notify", !.res = "ok"]
             /\ UNCHANGED <<chan, notifyLost, produced, enqueued>>
    /\ UNCHANGED <<rawProps, phase, buf, hasRx, handlerInstalled, deviceCccd,
                   cccdWrites, valueReads, valueWrites, delivered, acquired,
                   steps>>
    /\ UNCHANGED <<writesPending, writesFailed>>
    /\ UNCHANGED nonIoVars

\* ------------------------------------------------- impl Read for CharacteristicIO
\* variant: an expired wait is retried once
recv_timeout_retry(ch, arrival) ==
    IF ch # <<>>
    THEN [data |-> Some(Head(ch)), rest |-> Tail(ch), waits |-> 1, polls |-> 0,
          arrived |-> FALSE]
    ELSE [data |-> arrival, rest |-> ch,
          waits |-> IF arrival = None THEN 2 ELSE 1, polls |-> 0,
          arrived |-> arrival # None]

\* rx.recv_timeout(1s).ok(): the oldest queued payload, else a payload that
\* arrives during the wait, else None when the wait expires
recv_timeout(ch, arrival) ==
    IF ch # <<>>
    THEN [data |-> Some(Head(ch)), rest |-> Tail(ch), waits |-> 1, polls |-> 0,
          arrived |-> FALSE]
    ELSE [data |-> arrival, rest |-> ch, waits |-> 1, polls |-> 0,
          arrived |-> arrival # None]

\* variant: the newest queued payload is taken first
try_recv_newest(ch) ==
    IF ch # <<>>
    THEN [data |-> Some(ch[Len(ch)]), rest |-> SubSeq(ch, 1, Len(ch) - 1),
          waits |-> 0, polls |-> 1, arrived |-> FALSE]
    ELSE [data |-> None, rest |-> ch, waits |-> 0, polls |-> 1,
          arrived |-> FALSE]

\* rx.try_recv().ok(): the oldest queued payload, else None, without waiting
try_recv(ch) ==
    IF ch # <<>>
    THEN [data |-> Some(Head(ch)), rest |-> Tail(ch), waits |-> 0, polls |-> 1,
          arrived |-> FALSE]
    ELSE [data |-> None, rest |-> ch, waits |-> 0, polls |-> 1,
          arrived |-> FALSE]

\* the notify branch of read: wait only when the buffer is empty
NotifyAcquire(b, ch, arrival) ==
    IF b = <<>> THEN recv_timeout(ch, arrival) ELSE try_recv(ch)

\* variant: the drain range is one byte too long
drain_lossy(b, n) ==
    LET len == Min(n, Len(b)) IN
    [len |-> len, out |-> SubSeq(b, 1, len), rest |-> SubSeq(b, len + 2, Len(b))]

\* the tail of read: len = min(buf.len(), self.buf.len()); drain(..len)
drain(b, n) ==
    LET len == Min(n, Len(b)) IN
    [len |-> len, out |-> SubSeq(b, 1, len), rest |-> SubSeq(b, len + 1, Len(b))]

\* Characteristic::read: the uncached fetch (request, .get()), then the
\* decode of its value (value()?, from_buffer?, length()?, read_bytes?)
FetchOutcomes ==
    {[err |-> e, data |-> <<>>] :
        e \in {"request", "get", "decode"}}
    \cup {[err |-> "", data |-> NextPayload(k)] : k \in 0..MaxPayload}

Arrivals == {None} \cup {Some(NextPayload(k)) : k \in 0..MaxPayload}

\* the notify branch of read, from a handle that passed the capability check
ReadNotify(base, n) ==
    \E arrival \in Arrivals :
        LET r == NotifyAcquire(buf, chan, arrival)
            b1 == IF r.data = None THEN buf ELSE buf \o r.data[1]
            d == drain(b1, n)
        IN \* a payload arrives during the wait only if the wait happens
           /\ arrival # None =>
                (buf = <<>> /\ chan = <<>> /\ deviceCccd = "Notify" /\ handlerInstalled)
           /\ chan' = r.rest
           /\ buf' = d.rest
           /\ delivered' = delivered \o d.out
           /\ acquired' = IF r.data = None THEN acquired ELSE acquired \o r.data[1]
           /\ last' = [base EXCEPT !.res = "ok", !.ret = d.len, !.out = d.out,
                                   !.waits = r.waits, !.polls = r.polls,
                                   !.got = r.data, !.arrived = r.arrived]
           /\ produced' = IF r.arrived THEN produced + Len(arrival[1]) ELSE produced
           /\ UNCHANGED valueReads

\* variant: every poll-fed read fetches
NeedsFetchAlways(b) == TRUE

\* the poll branch fetches only when the buffer is empty
NeedsFetch(b) == b = <<>>

\* the poll branch of read: Characteristic::read only when buf is empty
ReadPoll(base, n) ==
    IF NeedsFetch(buf)
    THEN \E fetch \in FetchOutcomes :
            /\ valueReads' = valueReads + 1
            /\ IF fetch.err # ""
               THEN /\ last' = [base EXCEPT !.res = "err", !.fetches = 1]
                    /\ UNCHANGED <<buf, chan, delivered, acquired, produced>>
               ELSE LET d == drain(buf \o fetch.data, n) IN
                    /\ buf' = d.rest
                    /\ delivered' = delivered \o d.out
                    /\ acquired' = acquired \o fetch.data
                    /\ produced' = produced + Len(fetch.data)
                    /\ last' = [base EXCEPT !.res = "ok", !.ret = d.len,
                                            !.out = d.out, !.fetches = 1,
                                            !.got = Some(fetch.data)]
                    /\ UNCHANGED chan
    ELSE LET d == drain(buf, n) IN
         /\ buf' = d.rest
         /\ delivered' = delivered \o d.out
         /\ last' = [base EXCEPT !.res = "ok", !.ret = d.len, !.out = d.out]
         /\ UNCHANGED <<chan, valueReads, acquired, produced>>

Read ==
    /\ phase = "live"
    /\ steps < MaxOps
    /\ steps' = steps + 1
    /\ \E n \in 0..MaxCaller, pOk \in BOOLEAN :
        LET props == properties(pOk)
            base == [NoOp EXCEPT !.op = "read", !.propsOk = pOk, !.len = n,
                                 !.bufBefore = buf, !.chanBefore = chan]
        IN
        IF ReadLacksCapability(props)
        THEN /\ last' = [base EXCEPT !.res = "panic"]
             /\ UNCHANGED <<buf, chan, valueReads, delivered, acquired,
                            produced>>
        ELSE IF hasRx THEN ReadNotify(base, n)
        ELSE ReadPoll(base, n)
    /\ UNCHANGED <<rawProps, phase, hasRx, handlerInstalled, deviceCccd,
                   cccdWrites, valueWrites, enqueued, notifyLost, errorLogs>>
    /\ UNCHANGED <<writesPending, writesFailed>>
    /\ UNCHANGED nonIoVars

\* ------------------------------------------------ impl Write for CharacteristicIO
\* the capability check at the top of write
WriteLacksCapability(props) == props # None /\ ~contains(props[1], WRITE)

\* Characteristic::write: staging in the DataWriter (new()?, write_bytes?,
\* detach_buffer()?), then write_value_async(&buf), whose Result is the
\* result of the call
WriteOutcomes == {"stage_err", "request_err", "ok"}

\* variant: flush without the capability check
FlushNeverPanics(props) == FALSE

\* the capability check at the top of flush
FlushLacksCapability(props) == props # None /\ ~contains(props[1], WRITE)

\* variant: the last byte of the slice is not staged
detach_buffer_short(data) == SubSeq(data, 1, Len(data) - 1)

\* writer.write_bytes(&data); writer.detach_buffer(): the whole slice
detach_buffer(data) == data

\* the outcomes in which write_value_async is called
Staged(outcome) == outcome \in {"request_err", "ok"}

Write ==
    /\ phase = "live"
    /\ steps < MaxOps
    /\ steps' = steps + 1
    /\ \E k \in 0..MaxPayload, pOk \in BOOLEAN, w \in WriteOutcomes :
        LET props == properties(pOk)
            data == CallerBytes(k)
            base == [NoOp EXCEPT !.op = "write", !.propsOk = pOk, !.data = data,
                                 !.bufBefore = buf, !.chanBefore = chan]
        IN
        IF WriteLacksCapability(props)
        THEN /\ last' = [base EXCEPT !.res = "panic"]
             /\ UNCHANGED <<valueWrites, writesPending>>
        ELSE IF ~Staged(w)
        THEN /\ last' = [base EXCEPT !.res = "err"]
             /\ UNCHANGED <<valueWrites, writesPending>>
        ELSE /\ valueWrites' = valueWrites + 1
             \* the operation write_value_async hands back is dropped
             \* unawaited: it is under way when write returns
             /\ writesPending' = IF w = "ok" THEN writesPending + 1
                                 ELSE writesPending
             /\ last' = IF w = "ok"
                        THEN [base EXCEPT !.res = "ok", !.ret = Len(data),
                                          !.pwrites = 1,
                                          !.sent = Some(detach_buffer(data))]
                        ELSE [base EXCEPT !.res = "err", !.pwrites = 1,
                                          !.sent = Some(detach_buffer(data))]
    /\ UNCHANGED <<rawProps, phase, buf, hasRx, chan, handlerInstalled,
                   deviceCccd, cccdWrites, valueReads, delivered, acquired,
                   produced, enqueued, notifyLost, errorLogs>>
    /\ UNCHANGED writesFailed
    /\ UNCHANGED nonIoVars

Flush ==
    /\ phase = "live"
    /\ steps < MaxOps
    /\ steps' = steps + 1
    /\ \E pOk \in BOOLEAN :
        LET props == properties(pOk)
            base == [NoOp EXCEPT !.op = "flush", !.propsOk = pOk,
                                 !.bufBefore = buf, !.chanBefore = chan]
        IN
        IF FlushLacksCapability(props)
        THEN last' = [base EXCEPT !.res = "panic"]
        ELSE last' = [base EXCEPT !.res = "ok"]
    /\ UNCHANGED <<rawProps, phase, buf, hasRx, chan, handlerInstalled,
                   deviceCccd, cccdWrites, valueReads, valueWrites, delivered,
                   acquired, produced, enqueued, notifyLost, errorLogs>>
    /\ UNCHANGED <<writesPending, writesFailed>>
    /\ UNCHANGED nonIoVars

\* The platform finishes a write operation that write_value_async started:
\* it completes, or it fails (device out of range, write refused).  No
\* code of the handle observes the outcome.
WriteCompletes ==
    /\ writesPending > 0
    /\ writesPending' = writesPending - 1
    /\ \E ok \in BOOLEAN :
        writesFailed' = IF ok THEN writesFailed ELSE writesFailed + 1
    /\ UNCHANGED <<rawProps, phase, buf, hasRx, chan, handlerInstalled,
                   deviceCccd, cccdWrites, valueReads, valueWrites, delivered,
                   acquired, produced, enqueued, notifyLost, errorLogs, steps,
                   last>>
    /\ UNCHANGED nonIoVars

\* ------------------------------------------------- impl Drop for CharacteristicIO
\* variant: the early return is inverted
DropSkipsInverted(rxSome) == rxSome

\* drop returns early only when the handle has no receiver
DropSkips(rxSome) == ~rxSome

Drop ==
    /\ phase = "live"
    /\ phase' = "dropped"
    /\ \E w \in CccdOutcomes :
        LET base == [NoOp EXCEPT !.op = "drop"] IN
        IF DropSkips(hasRx)
        THEN /\ last' = [base EXCEPT !.res = "ok"]
             /\ UNCHANGED <<cccdWrites, deviceCccd, errorLogs, chan>>
        ELSE /\ cccdWrites' = Append(cccdWrites, [value |-> "None", ok |-> (w = "ok")])
             /\ deviceCccd' = IF w = "ok" THEN "None" ELSE deviceCccd
             \* .map(|val| val.get()).err(): only a failed request is an Err
             /\ errorLogs' = IF w = "request_err" THEN errorLogs \cup {"drop"}
                             ELSE errorLogs
             /\ chan' = <<>>
             /\ last' = [base EXCEPT !.res = "ok", !.cccd = 1]
    /\ UNCHANGED <<rawProps, buf, hasRx, handlerInstalled, valueReads,
                   valueWrites, delivered, acquired, produced, enqueued,
                   notifyLost, steps>>
    /\ UNCHANGED <<writesPending, writesFailed>>
    /\ UNCHANGED nonIoVars

\* ------------------------------------------------------ AdvertisementWatcher
\* AdvertisementWatcher::new: channel(), BluetoothLEAdvertisementWatcher::new()?,
\* watcher.received(handler)?, watcher.start()?; on any error the function
\* returns Err and the channel, the handler and the watcher are dropped
WatcherNewOutcomes == {"create_err", "received_err", "start_err", "ok"}

WatcherNew ==
    /\ wPhase = "unbuilt"
    /\ \E w \in WatcherNewOutcomes :
        /\ wPhase' = IF w = "ok" THEN "running" ELSE "failed"
        /\ wStatus' = IF w = "ok" THEN "started" ELSE "created"
        /\ wHandler' = (w = "ok")
        /\ wStarts' = IF w \in {"start_err", "ok"} THEN wStarts + 1 ELSE wStarts
        /\ wLast' = [WNoOp EXCEPT !.op = "new",
                                  !.res = IF w = "ok" THEN "ok" ELSE "err"]
    /\ wQueue' = <<>>
    /\ UNCHANGED <<wSent, wTaken, advSeen, wStops, wLogs>>
    /\ UNCHANGED nonWatcherVars

\* the watcher owns rx from new until its fields are dropped
WatcherRxAlive == wPhase \in {"running", "stopping"}

\* variant: the channel hands the newest item out first
send_front(q, item) == <<item>> \o q

\* tx.send(item): the item joins the back of the channel
send(q, item) == Append(q, item)

\* A started watcher receives an advertisement and the platform dispatches
\* it to the registered handler, which sends it on tx; a failed send is
\* logged and the handler returns Ok(()) in every case.
Advertise ==
    /\ wStatus = "started"
    /\ wHandler
    /\ advSeen < MaxAdv
    /\ advSeen' = advSeen + 1
    /\ IF WatcherRxAlive
       THEN /\ wQueue' = send(wQueue, advSeen + 1)
            /\ wSent' = Append(wSent, advSeen + 1)
            /\ UNCHANGED wLogs
       ELSE /\ wLogs' = wLogs \cup {"send"}
            /\ UNCHANGED <<wQueue, wSent>>
    /\ wLast' = [WNoOp EXCEPT !.op = "advert", !.res = "ok",
                              !.item = Some(advSeen + 1),
                              !.queueBefore = wQueue, !.senderBefore = wHandler]
    /\ UNCHANGED <<wPhase, wStatus, wHandler, wTaken, wStarts, wStops>>
    /\ UNCHANGED nonWatcherVars

\* variant: recv never waits
recv_blocks_never(q, senderAlive) == FALSE

\* rx.recv() waits while the channel is empty and a sender is alive
recv_blocks(q, senderAlive) == q = <<>> /\ senderAlive

\* rx.recv().ok() once it returns: the oldest item, or None when the channel
\* is empty and every sender is gone
recv(q) == IF q # <<>> THEN Some(Head(q)) ELSE None

\* <&AdvertisementWatcher as Iterator>::next, from the call to its return
WatcherNext ==
    /\ wPhase = "running"
    /\ ~recv_blocks(wQueue, wHandler)
    /\ LET got == recv(wQueue) IN
        /\ wQueue' = IF got = None THEN wQueue ELSE Tail(wQueue)
        /\ wTaken' = IF got = None THEN wTaken ELSE Append(wTaken, got[1])
        /\ wLast' = [WNoOp EXCEPT !.op = "next",
                                  !.res = IF got = None THEN "none" ELSE "some",
                                  !.item = got, !.queueBefore = wQueue,
                                  !.senderBefore = wHandler]
    /\ UNCHANGED <<wPhase, wStatus, wHandler, wSent, advSeen, wStarts, wStops,
                   wLogs>>
    /\ UNCHANGED nonWatcherVars

\* variant: stopping the platform watcher releases its handler
handler_after_stop_released(registered) == FALSE

\* watcher.stop() leaves the received handler registered
handler_after_stop(registered) == registered

\* variant: a failed stop is not logged
stop_logs_nothing(ok, logs) == logs

\* if let Err(err) = self.watcher.stop() { log::error!(..) }
stop_logs(ok, logs) == IF ok THEN logs ELSE logs \cup {"stop"}

\* impl Drop for AdvertisementWatcher, the body: self.watcher.stop(), a
\* failure logged
WatcherStop ==
    /\ wPhase = "running"
    /\ wPhase' = "stopping"
    /\ wStops' = wStops + 1
    /\ wHandler' = handler_after_stop(wHandler)
    /\ \E ok \in BOOLEAN :
        /\ wStatus' = IF ok THEN "stopped" ELSE wStatus
        /\ wLogs' = stop_logs(ok, wLogs)
        /\ wLast' = [WNoOp EXCEPT !.op = "stop",
                                  !.res = IF ok THEN "ok" ELSE "err",
                                  !.queueBefore = wQueue,
                                  !.senderBefore = wHandler]
    /\ UNCHANGED <<wQueue, wSent, wTaken, advSeen, wStarts>>
    /\ UNCHANGED nonWatcherVars

\* after the body of drop the fields are dropped: the reference to the
\* platform watcher, then rx with whatever is still queued.  A stopped
\* platform watcher goes with its last reference and takes the handler
\* with it; one that is still started (the stop failed) may live on.
WatcherRelease ==
    /\ wPhase = "stopping"
    /\ wPhase' = "released"
    /\ wQueue' = <<>>
    /\ \E kept \in BOOLEAN :
        wHandler' = (wHandler /\ wStatus = "started" /\ kept)
    /\ wLast' = [WNoOp EXCEPT !.op = "release", !.res = "ok",
                              !.queueBefore = wQueue, !.senderBefore = wHandler]
    /\ UNCHANGED <<wStatus, wSent, wTaken, advSeen, wStarts, wStops, wLogs>>
    /\ UNCHANGED nonWatcherVars

Next ==
    \/ New \/ Register \/ Notification \/ Read \/ Write \/ Flush \/ Drop
    \/ WatcherNew \/ Advertise \/ WatcherNext \/ WatcherStop \/ WatcherRelease

Spec == Init /\ [][Next]_vars

\* the writes of a handle together with the platform's handling of the
\* operations they start
NextWrite == New \/ Register \/ Write \/ WriteCompletes \/ Drop

SpecWrite == Init /\ [][NextWrite]_vars

\* ---------------------------------------------------------- BluetoothAddress
\* Text is a sequence of one-character strings.  A u64 is held as three
\* limbs <<l0, l1, l2>>, least significant first: l0 and l1 of 24 bits,
\* l2 of 16 bits, its value being l0 + l1 * 2^24 + l2 * 2^48.
Limb == 16777216

Range(f) == {f[i] : i \in DOMAIN f}

IndexOf(seq, c) == CHOOSE i \in DOMAIN seq : seq[i] = c

UpperHex ==
    <<"0", "1", "2", "3", "4", "5", "6", "7", "8", "9",
      "A", "B", "C", "D", "E", "F">>

LowerHex ==
    <<"0", "1", "2", "3", "4", "5", "6", "7", "8", "9",
      "a", "b", "c", "d", "e", "f">>

\* char::to_digit(16)
to_digit(c) ==
    IF c \in Range(UpperHex) THEN Some(IndexOf(UpperHex, c) - 1)
    ELSE IF c \in Range(LowerHex) THEN Some(IndexOf(LowerHex, c) - 1)
    ELSE None

\* the digit loop of u8::from_str_radix: acc * 16 + digit with overflow
\* checks, None on a character that is no digit or on overflow
RECURSIVE accumulate(_, _)
accumulate(digits, acc) ==
    IF digits = <<>> THEN Some(acc)
    ELSE LET d == to_digit(Head(digits)) IN
         IF d = None THEN None
         ELSE IF acc * 16 + d[1] >= U8 THEN None
         ELSE accumulate(Tail(digits), acc * 16 + d[1])

\* variant: an empty segment counts as zero
from_str_radix_lenient(part) ==
    IF part = <<>> THEN Some(0)
    ELSE IF part = <<"+">> \/ part = <<"-">> THEN None
    ELSE IF Head(part) = "+" THEN accumulate(Tail(part), 0)
    ELSE accumulate(part, 0)

\* u8::from_str_radix(part, 16), .ok(): empty text and a lone sign are
\* errors, one leading "+" is skipped, "-" is no digit of an unsigned type
from_str_radix(part) ==
    IF part = <<>> THEN None
    ELSE IF part = <<"+">> \/ part = <<"-">> THEN None
    ELSE IF Head(part) = "+" THEN accumulate(Tail(part), 0)
    ELSE accumulate(part, 0)

\* s.split(':').collect(): the pieces between the colons, empty ones kept
RECURSIVE split(_)
split(s) ==
    IF ":" \notin Range(s) THEN <<s>>
    ELSE LET i == CHOOSE k \in DOMAIN s :
                      s[k] = ":" /\ \A j \in 1..(k - 1) : s[j] # ":"
         IN <<SubSeq(s, 1, i - 1)>> \o split(SubSeq(s, i + 1, Len(s)))

\* variant: the first array element is the most significant byte
from_be_bytes(bytes) ==
    <<bytes[8] + U8 * bytes[7] + U8 * U8 * bytes[6],
      bytes[5] + U8 * bytes[4] + U8 * U8 * bytes[3],
      bytes[2] + U8 * bytes[1]>>

\* u64::from_le_bytes: the first array element is the least significant byte
from_le_bytes(bytes) ==
    <<bytes[1] + U8 * bytes[2] + U8 * U8 * bytes[3],
      bytes[4] + U8 * bytes[5] + U8 * U8 * bytes[6],
      bytes[7] + U8 * bytes[8]>>

\* the loop of from_str over parts.iter().rev().enumerate(): bytes[index]
\* (zero-based in the source) takes the value of the index-th part from the
\* end; the first part that does not parse ends it with InvalidNumber
RECURSIVE parse_loop(_, _, _)
parse_loop(parts, index, bytes) ==
    IF index > Len(parts)
    THEN [tag |-> "ok", val |-> from_le_bytes(bytes)]
    ELSE LET val == from_str_radix(parts[Len(parts) + 1 - index]) IN
         IF val = None
         THEN [tag |-> "err", err |-> "InvalidNumber"]
         ELSE parse_loop(parts, index + 1, [bytes EXCEPT ![index] = val[1]])

\* <BluetoothAddress as FromStr>::from_str
from_str(s) ==
    LET parts == split(s) IN
    IF Len(parts) # 6
    THEN [tag |-> "err", err |-> "IncorrectSegments"]
    ELSE parse_loop(parts, 1, [i \in 1..8 |-> 0])

\* u64::to_be_bytes: the most significant byte first
to_be_bytes(v) ==
    [k \in 1..8 |->
        LET i == 8 - k IN
        IF i % 3 = 0 THEN v[(i \div 3) + 1] % U8
        ELSE IF i % 3 = 1 THEN (v[(i \div 3) + 1] \div U8) % U8
        ELSE (v[(i \div 3) + 1] \div (U8 * U8)) % U8]

\* BluetoothAddress::bytes: to_be_bytes()[2..]
bytes(v) == SubSeq(to_be_bytes(v), 3, 8)

\* variant: no zero padding
format_02X_unpadded(b) ==
    IF b < 16 THEN <<UpperHex[b + 1]>>
    ELSE <<UpperHex[(b \div 16) + 1], UpperHex[(b % 16) + 1]>>

\* format!("{:02X}", b)
format_02X(b) == <<UpperHex[(b \div 16) + 1], UpperHex[(b % 16) + 1]>>

\* [..].join(sep)
RECURSIVE join(_, _)
join(parts, sep) ==
    IF parts = <<>> THEN <<>>
    ELSE IF Len(parts) = 1 THEN parts[1]
    ELSE parts[1] \o sep \o join(Tail(parts), sep)

\* BluetoothAddress::hex_string
hex_string(v) == join([i \in 1..6 |-> format_02X(bytes(v)[i])], <<":">>)

\* the address of the unit test, "C8:FD:19:12:7F:CD", by segments
KnownSegments ==
    <<(<<"C", "8">>), (<<"F", "D">>), (<<"1", "9">>), (<<"1", "2">>),
      (<<"7", "F">>), (<<"C", "D">>)>>

\* segments every combination of which is parsed: two digits of mixed
\* case, one digit, no number
SegmentPool == {<<"c", "D">>, <<"7">>, <<"G", "0">>}

\* segments put in each place of the unit test's address in turn
SegmentVariants ==
    {<<>>, <<"+">>, <<"-">>, <<"+", "F">>, <<"-", "1">>, <<"F">>, <<"0", "F">>,
     <<"0", "0">>, <<"0", "0", "F">>, <<"0", "F", "F">>, <<"1", "0", "0">>,
     <<"f", "f">>, <<"F", "F">>, <<"Z", "Z">>, <<"+", "+", "1">>, <<" ", "1">>,
     <<"+", "1", "0", "0">>, <<"a", "B">>, <<"0", "a">>}

\* the texts handed to from_str: every text of 1..MaxSegments segments of
\* the pool, the unit test's three inputs, the empty text, and the unit
\* test's address with one segment replaced
AddrInputs ==
    {join(segs, <<":">>) :
        segs \in UNION {[1..n -> SegmentPool] : n \in 1..MaxSegments}}
    \cup {join([KnownSegments EXCEPT ![i] = v], <<":">>) :
              i \in 1..6, v \in SegmentVariants}
    \cup {join(KnownSegments, <<":">>), <<"t", "e", "s", "t">>, <<>>}

\* s.parse::<BluetoothAddress>()
ParseAddress ==
    /\ addrParsed = Unset
    /\ addrParsed' = from_str(addrText)
    /\ UNCHANGED <<addrText, addrShown, decoded>>
    /\ UNCHANGED <<ioVars, wVars>>

\* address.hex_string() on the parsed address
FormatAddress ==
    /\ addrParsed.tag = "ok"
    /\ addrShown = Unset
    /\ addrShown' = [tag |-> "ok", text |-> hex_string(addrParsed.val)]
    /\ UNCHANGED <<addrText, addrParsed, decoded>>
    /\ UNCHANGED <<ioVars, wVars>>

\* a behaviour that parses one text and formats the result
InitAddress ==
    /\ rawProps = 0
    /\ IoInit("absent")
    /\ WatcherInit("absent")
    /\ addrText \in AddrInputs
    /\ addrParsed = Unset
    /\ addrShown = Unset
    /\ decoded = Unset

NextAddress == ParseAddress \/ FormatAddress

SpecAddress == InitAddress /\ [][NextAddress]_vars

\* ------------------------------------------- Characteristic::properties alone
\* the ten flags of the bitflags! block
Flags ==
    {BROADCAST, READ, WRITE_WITHOUT_RESPONSE, WRITE, NOTIFY, INDICATE,
     AUTHENTICATED_SIGNED_WRITES, EXTENDED_PROPERTIES, RELIABLE_WRITES,
     WRITABLE_AUXILIARIES}

\* the masks decoded: every mask up to MaxMask, and each higher bit of the
\* u32 the checker's integers can hold, alone and with declared flags
MaskInputs ==
    0..MaxMask
    \cup {2^k + low : k \in 11..30, low \in {0, READ + NOTIFY, AllFlags}}

\* characteristic.properties() on a characteristic reporting rawProps
CallProperties ==
    /\ decoded = Unset
    /\ \E callOk \in BOOLEAN :
        decoded' = [tag |-> "done", callOk |-> callOk,
                    value |-> properties(callOk)]
    /\ UNCHANGED <<addrText, addrParsed, addrShown>>
    /\ UNCHANGED <<ioVars, wVars>>

\* a behaviour that decodes the mask of one characteristic
InitFlags ==
    /\ rawProps \in MaskInputs
    /\ IoInit("absent")
    /\ WatcherInit("absent")
    /\ PureIdle

NextFlags == CallProperties

SpecFlags == InitFlags /\ [][NextFlags]_vars

\* =================================================================== claims
\* number of "disable notify" (None) CCCD write attempts so far
DisableAttempts ==
    Cardinality({i \in DOMAIN cccdWrites : cccdWrites[i].value = "None"})

\* an "enable notify" (Notify) CCCD write has completed successfully
EnableSucceeded ==
    \E i \in DOMAIN cccdWrites :
        cccdWrites[i].value = "Notify" /\ cccdWrites[i].ok

\* the characteristic's mask decodes and the decoded set lacks the flag
DecodedLacks(flag) ==
    from_bits(rawProps) # None /\ ~contains(from_bits(rawProps)[1], flag)

RECURSIVE Flatten(_)
Flatten(ss) == IF ss = <<>> THEN <<>> ELSE Head(ss) \o Flatten(Tail(ss))

\* C1: dropping a notify-fed handle attempts exactly one disable-notify
\* write, whatever reads and writes came before and however they ended;
\* no disable write is attempted while the handle is alive.
C1_DropDisablesOnce ==
    /\ (phase = "dropped" /\ hasRx) => DisableAttempts = 1
    /\ (phase = "live" /\ hasRx) => DisableAttempts = 0

C1_Witness ==
    /\ phase = "dropped" /\ hasRx
    /\ last.op = "drop" /\ last.cccd = 1
    /\ steps = 2
    /\ DisableAttempts = 1

\* C2: every enable-notify write that succeeded is followed by a
\* disable-notify write attempt once the handle's life has ended, on every
\* exit path, including a construction that fails after the enable write.
C2_EnableAlwaysUndone ==
    (phase \in {"failed", "dropped"} /\ EnableSucceeded) => DisableAttempts >= 1

\* C3: a read (write) whose properties call decodes a set without READ
\* (WRITE) panics before any platform value read (write), before any
\* receive from the channel, and with the internal buffer untouched.
C3_CapabilityPanicBeforeIO ==
    /\ (last.op = "read" /\ last.propsOk /\ DecodedLacks(READ)) =>
          /\ last.res = "panic"
          /\ last.fetches = 0 /\ last.waits = 0 /\ last.polls = 0
          /\ last.got = None
          /\ buf = last.bufBefore /\ chan = last.chanBefore
    /\ (last.op = "write" /\ last.propsOk /\ DecodedLacks(WRITE)) =>
          /\ last.res = "panic"
          /\ last.pwrites = 0 /\ last.sent = None
          /\ buf = last.bufBefore /\ chan = last.chanBefore

C3_Witness ==
    /\ last.op = "read" /\ last.res = "panic"
    /\ hasRx /\ Len(chan) = 2
    /\ last.len > 0

\* C4 (as stated): no usable handle exists for a characteristic whose
\* decoded properties lack READ.
C4_NoHandleWithoutRead == ~(DecodedLacks(READ) /\ phase = "live")

\* C4 (amended): construction never fails fatally; on a characteristic
\* whose decoded properties lack READ it returns a usable handle, or a
\* platform error when configuring notifications fails.
C4_NewNeverPanics ==
    /\ last.op \in {"new", "register"} => last.res \in {"ok", "err", "pending"}
    /\ (last.op = "new" /\ DecodedLacks(READ)) =>
          IF last.propsOk /\ DecodedLacks(NOTIFY) THEN phase = "live"
          ELSE phase \in {"live", "configuring", "failed"} /\ last.res # "panic"
    /\ (last.op = "register" /\ last.res = "ok") => phase = "live"

C4_Witness ==
    /\ last.op = "new" /\ last.res = "ok" /\ last.propsOk
    /\ DecodedLacks(READ)
    /\ phase = "live"

\* C5: on a poll-fed handle a read that starts with an empty buffer issues
\* exactly one fetch; when the fetch yields a value the read returns
\* min(caller length, fetched length) bytes, the first ones, and keeps the
\* rest buffered; a read that starts with a non-empty buffer issues no fetch.
C5_PollFetchOnce ==
    (last.op = "read" /\ ~hasRx /\ last.res # "panic") =>
        IF last.bufBefore = <<>>
        THEN /\ last.fetches = 1
             /\ last.res = "ok" =>
                  /\ last.got # None
                  /\ last.ret = Min(last.len, Len(last.got[1]))
                  /\ last.out = SubSeq(last.got[1], 1, last.ret)
                  /\ buf = SubSeq(last.got[1], last.ret + 1, Len(last.got[1]))
             /\ last.res = "err" => (buf = <<>> /\ last.ret = 0)
        ELSE /\ last.fetches = 0
             /\ last.res = "ok"
             /\ last.got = None

C5_Witness ==
    /\ last.op = "read" /\ ~hasRx /\ last.res = "ok"
    /\ last.bufBefore = <<>> /\ last.fetches = 1
    /\ Len(last.got[1]) = 2 /\ last.len = 1 /\ last.ret = 1
    /\ Len(buf) = 1
    /\ valueReads = 1 /\ steps = 2

\* C6: on a notify-fed handle a read that starts with an empty buffer and
\* gets no payload before the wait expires returns Ok(0), leaves the buffer
\* empty and waits exactly once.
C6_TimeoutReturnsZero ==
    (last.op = "read" /\ hasRx /\ last.res # "panic"
        /\ last.bufBefore = <<>> /\ last.chanBefore = <<>> /\ ~last.arrived) =>
        /\ last.res = "ok" /\ last.ret = 0 /\ last.out = <<>>
        /\ buf = <<>>
        /\ last.waits = 1 /\ last.polls = 0 /\ last.fetches = 0

C6_Witness ==
    /\ last.op = "read" /\ hasRx /\ last.res = "ok"
    /\ last.bufBefore = <<>> /\ last.chanBefore = <<>> /\ ~last.arrived
    /\ last.len = 2 /\ last.ret = 0 /\ last.waits = 1

\* a notify-fed read that passed the capability check with bytes buffered
NotifyReadNonEmpty ==
    last.op = "read" /\ hasRx /\ last.res # "panic" /\ last.bufBefore # <<>>

\* C7 (as stated): such a read moves every payload queued at that moment
\* into the buffer, in arrival order.
C7_DrainsWholeQueue ==
    NotifyReadNonEmpty =>
        /\ chan = <<>>
        /\ last.out \o buf = last.bufBefore \o Flatten(last.chanBefore)

\* C7 (amended): such a read moves at most one queued payload, the oldest,
\* into the buffer, without waiting; the others stay queued in order.
C7_TakesOldestOnly ==
    NotifyReadNonEmpty =>
        /\ last.waits = 0 /\ last.polls = 1
        /\ IF last.chanBefore = <<>>
           THEN /\ last.got = None
                /\ chan = <<>>
                /\ last.out \o buf = last.bufBefore
           ELSE /\ last.got = Some(Head(last.chanBefore))
                /\ chan = Tail(last.chanBefore)
                /\ last.out \o buf = last.bufBefore \o Head(last.chanBefore)

C7_Witness ==
    /\ NotifyReadNonEmpty
    /\ Len(last.chanBefore) = 2
    /\ last.chanBefore[1] # last.chanBefore[2]
    /\ chan = <<last.chanBefore[2]>>

\* C8: every read returns n = min(caller length, length of the buffer after
\* acquisition), hands out exactly the first n buffered bytes and removes
\* exactly those; so the bytes delivered so far followed by the buffer are
\* the acquired payloads in acquisition order.
C8_FifoNoLoss ==
    /\ delivered \o buf = acquired
    /\ (last.op = "read" /\ last.res = "ok") =>
          LET b1 == IF last.got = None THEN last.bufBefore
                    ELSE last.bufBefore \o last.got[1]
          IN /\ last.ret = Min(last.len, Len(b1))
             /\ last.out = SubSeq(b1, 1, last.ret)
             /\ buf = SubSeq(b1, last.ret + 1, Len(b1))

C8_Witness ==
    /\ last.op = "read" /\ last.res = "ok" /\ steps = 2
    /\ Len(delivered) = 2 /\ delivered[1] # delivered[2]
    /\ Len(buf) >= 1 /\ Len(last.bufBefore) >= 1

\* C9 (as stated): every write that passes the capability check issues
\* exactly one platform write carrying exactly the caller's bytes, returns
\* their length when the call succeeds, and leaves the read buffer alone.
C9_AlwaysOneWrite ==
    (last.op = "write" /\ last.res # "panic") =>
        /\ last.pwrites = 1
        /\ last.sent = Some(last.data)
        /\ last.res = "ok" => last.ret = Len(last.data)
        /\ buf = last.bufBefore

\* C9 (amended): such a write issues at most one platform write: exactly
\* one carrying exactly the caller's bytes, unless staging the bytes in the
\* DataWriter fails, and then none is issued and the write returns an error;
\* success returns the full length; the read buffer is never modified.
C9_OneWriteUnlessStagingFails ==
    (last.op = "write" /\ last.res # "panic") =>
        /\ last.pwrites \in {0, 1}
        /\ last.pwrites = 1 => last.sent = Some(last.data)
        /\ last.pwrites = 0 => (last.sent = None /\ last.res = "err")
        /\ last.res = "ok" => (last.pwrites = 1 /\ last.ret = Len(last.data))
        /\ buf = last.bufBefore /\ chan = last.chanBefore

C9_Witness ==
    /\ last.op = "write" /\ last.res = "ok"
    /\ Len(last.data) = 2 /\ last.data[1] # last.data[2]
    /\ last.sent = Some(last.data) /\ last.ret = 2
    /\ buf # <<>>
    /\ valueWrites = 1

\* the state a flush may not touch
FlushFrame ==
    <<buf, chan, hasRx, handlerInstalled, deviceCccd, cccdWrites, valueReads,
      valueWrites, phase>>

\* C10 (as stated): flush always returns success and changes nothing.
C10_FlushAlwaysOk ==
    [][last'.op = "flush" => (last'.res = "ok" /\ UNCHANGED FlushFrame)]_vars

\* C10 (amended): flush issues no platform call and changes neither the
\* buffer nor the subscription; it returns success unless the properties
\* call decodes a set without WRITE, and then it panics.
C10_FlushNoEffect ==
    [][last'.op = "flush" =>
          /\ UNCHANGED FlushFrame
          /\ last'.res = IF last'.propsOk /\ DecodedLacks(WRITE)
                         THEN "panic" ELSE "ok"]_vars

C10_Witness ==
    /\ last.op = "flush" /\ last.res = "panic"
    /\ buf # <<>>
    /\ ~hasRx

\* the first n bytes of the device's value stream
Stream(n) == [i \in 1..n |-> i % U8]

\* C11: while the consumer is alive, what it has dequeued followed by what
\* is still queued is exactly what the callbacks enqueued, in enqueue
\* order and without repetition: for the advertisements of a watcher, and
\* for the notification bytes of a notify-fed characteristic.
C11_ChannelFifo ==
    /\ WatcherRxAlive =>
          /\ wTaken \o wQueue = wSent
          /\ \A i, j \in DOMAIN wSent : i < j => wSent[i] < wSent[j]
    /\ (wLast.op = "next" /\ wLast.res = "some") =>
          wLast.item = Some(Head(wLast.queueBefore))
    /\ RxAlive => acquired \o Flatten(chan) = Stream(produced)

C11_Witness ==
    /\ wLast.op = "next"
    /\ wTaken = <<1, 2>>
    /\ wQueue = <<3>>
    /\ Len(wLast.queueBefore) = 2

\* C12: a call of next() that returns has returned the oldest queued
\* advertisement when one was queued; it returns None only when the channel
\* was empty and no sender was left; with the channel empty and a sender
\* alive it does not return.
C12_NextNoneOnlyWhenClosed ==
    wLast.op = "next" =>
        /\ wLast.queueBefore # <<>> =>
              /\ wLast.res = "some"
              /\ wLast.item = Some(wLast.queueBefore[1])
        /\ wLast.queueBefore = <<>> =>
              /\ wLast.res = "none"
              /\ ~wLast.senderBefore

C12_Witness ==
    /\ wLast.op = "next"
    /\ wLast.res = "some"
    /\ wLast.senderBefore
    /\ Len(wLast.queueBefore) = 2
    /\ wLast.item = Some(1)
    /\ wPhase = "running"

\* C13 (as stated): once the release has called stop, no callback enqueues
\* an advertisement any more.
C13_NoEnqueueAfterStop == [][wStops >= 1 => wSent' = wSent]_vars

\* C13: releasing a watcher calls stop exactly once and nothing else does;
\* start is called at most once and never after the stop; after a stop that
\* succeeded, and in any case after the watcher's fields are dropped, no
\* callback enqueues an advertisement; a stop that failed is logged and
\* the release goes on.
C13_StopOnceOnRelease ==
    [][ /\ wStops' = IF wPhase' \in {"stopping", "released"} THEN 1 ELSE 0
        /\ wStarts' <= 1
        /\ wStops >= 1 => wStarts' = wStarts
        /\ wStatus = "stopped" => (wStatus' = "stopped" /\ wSent' = wSent)
        /\ wPhase = "released" => wSent' = wSent
        /\ (wLast'.op = "stop" /\ wLast'.res = "err") =>
              ("stop" \in wLogs' /\ wPhase' = "stopping")
      ]_vars

C13_Witness ==
    /\ wPhase = "released"
    /\ wStops = 1
    /\ wStatus = "stopped"
    /\ wSent # <<>>
    /\ advSeen < MaxAdv

\* str::to_uppercase on the characters of an address text
to_uppercase(s) ==
    [i \in DOMAIN s |->
        IF s[i] \in Range(LowerHex) THEN UpperHex[IndexOf(LowerHex, s[i])]
        ELSE s[i]]

\* the segment is exactly two hexadecimal digits
TwoHexDigits(seg) ==
    Len(seg) = 2 /\ \A i \in DOMAIN seg : to_digit(seg[i]) # None

\* C14 (as stated): formatting the address parsed from any accepted text
\* yields the text in upper case.
C14_RoundTripUppercase ==
    addrShown.tag = "ok" => addrShown.text = to_uppercase(addrText)

\* C14: formatting the address parsed from a text whose six segments are
\* each exactly two hexadecimal digits yields the text in upper case; for
\* every accepted text the formatted address is seventeen characters long
\* and parses back to the same address.
C14_RoundTripTwoDigits ==
    addrShown.tag = "ok" =>
        /\ (\A seg \in Range(split(addrText)) : TwoHexDigits(seg)) =>
               addrShown.text = to_uppercase(addrText)
        /\ Len(addrShown.text) = 17
        /\ from_str(addrShown.text) = addrParsed

C14_Witness ==
    /\ addrShown.tag = "ok"
    /\ \A seg \in Range(split(addrText)) : TwoHexDigits(seg)
    /\ addrText # addrShown.text
    /\ addrShown.text = to_uppercase(addrText)
    /\ \E i \in DOMAIN addrText : addrText[i] = "0"

\* the number of segments of a text: its colons plus one
SegmentCount(s) == Cardinality({i \in DOMAIN s : s[i] = ":"}) + 1

\* the segment writes a byte in base 16: hexadecimal digits, at least one,
\* after an optional "+", all but the last two of them zeros
ValidByteText(seg) ==
    LET digits == IF seg # <<>> /\ Head(seg) = "+" THEN Tail(seg) ELSE seg IN
    /\ digits # <<>>
    /\ \A i \in DOMAIN digits : to_digit(digits[i]) # None
    /\ \A i \in 1..(Len(digits) - 2) : digits[i] = "0"

\* C15: from_str returns IncorrectSegments exactly when the text does not
\* have six segments, whatever they contain; InvalidNumber exactly when it
\* has six and one of them does not write a byte in base 16; and an
\* address otherwise.
C15_ParseErrors ==
    addrParsed # Unset =>
        IF SegmentCount(addrText) # 6
        THEN addrParsed = [tag |-> "err", err |-> "IncorrectSegments"]
        ELSE IF \E seg \in Range(split(addrText)) : ~ValidByteText(seg)
        THEN addrParsed = [tag |-> "err", err |-> "InvalidNumber"]
        ELSE addrParsed.tag = "ok"

C15_Witness ==
    /\ addrParsed = [tag |-> "err", err |-> "InvalidNumber"]
    /\ addrText = join([KnownSegments EXCEPT ![3] = <<"Z", "Z">>], <<":">>)

\* a u64 divided by ten: quotient (as limbs) and remainder
DivTen(v) ==
    LET c2 == v[3]
        c1 == (c2 % 10) * Limb + v[2]
        c0 == (c1 % 10) * Limb + v[1]
    IN [q |-> <<c0 \div 10, c1 \div 10, c2 \div 10>>, r |-> c0 % 10]

\* the decimal digits of a u64, most significant first (none for zero)
RECURSIVE Decimal(_)
Decimal(v) ==
    IF v = <<0, 0, 0>> THEN <<>>
    ELSE Decimal(DivTen(v).q) \o <<DivTen(v).r>>

\* C16: the parsed address has its top sixteen bits zero, so it is below
\* 2^48, and is the sum of b_i * 256^(5-i) over the bytes b_0..b_5 written
\* by the segments in text order: b_0..b_2 make up bits 47..24 and
\* b_3..b_5 bits 23..0; "C8:FD:19:12:7F:CD" parses to 220989372923853.
C16_BigEndianAssembly ==
    addrParsed.tag = "ok" =>
        LET parts == split(addrText)
            b == [i \in 1..6 |-> from_str_radix(parts[i])[1]]
        IN /\ addrParsed.val[3] = 0
           /\ addrParsed.val[2] = b[1] * 65536 + b[2] * 256 + b[3]
           /\ addrParsed.val[1] = b[4] * 65536 + b[5] * 256 + b[6]
           /\ addrText = join(KnownSegments, <<":">>) =>
                 Decimal(addrParsed.val)
                     = <<2, 2, 0, 9, 8, 9, 3, 7, 2, 9, 2, 3, 8, 5, 3>>

C16_Witness ==
    /\ addrText = join(KnownSegments, <<":">>)
    /\ addrParsed.tag = "ok"
    /\ addrParsed.val = <<1212365, 13171993, 0>>

\* the flags a decoded set contains
FlagSet(p) == {f \in Flags : contains(p, f)}

\* C17: a mask decodes exactly when none of its bits of weight 2^10 or
\* more is set, and the decoded set then contains exactly the flags 2^k,
\* k < 10, whose bit is set in the mask; any other mask decodes to None.
C17_DecodeExact ==
    (decoded.tag = "done" /\ decoded.callOk) =>
        IF rawProps \div 1024 # 0
        THEN decoded.value = None
        ELSE /\ decoded.value # None
             /\ FlagSet(decoded.value[1])
                   = {2^k : k \in {j \in 0..9 : (rawProps \div 2^j) % 2 = 1}}

C17_Witness ==
    /\ rawProps = 18
    /\ decoded.tag = "done"
    /\ decoded.value # None
    /\ FlagSet(decoded.value[1]) = {READ, NOTIFY}

\* C18: when a write call has returned, whether with a length or with an
\* error, no write operation it issued is still under way; and no write
\* operation has failed, since each of them was issued by a call that
\* returned a length.
C18_WriteAwaitsCompletion ==
    /\ (last.op = "write" /\ last.res \in {"ok", "err"}) => writesPending = 0
    /\ writesFailed = 0

\* C19 (as stated): once the watcher has been stopped and the queue is
\* empty, a next() on the receiver does not block (it returns None).
C19_NextEndsAfterStop ==
    (wStops >= 1 /\ WatcherRxAlive /\ wQueue = <<>>) =>
        ~recv_blocks(wQueue, wHandler)

\* C19: the stop does not close the stream.  For as long as the receiver
\* exists, the stop included, the handler holding the sender is registered,
\* so that next() on an empty queue blocks; no call of next() has returned
\* None; and next() can be called only before the stop, which happens in
\* the release of the watcher.
C19_StreamNeverCloses ==
    /\ WatcherRxAlive => wHandler
    /\ (WatcherRxAlive /\ wQueue = <<>>) => recv_blocks(wQueue, wHandler)
    /\ wLast.op = "next" => wLast.res = "some"
    /\ wPhase = "running" => wStops = 0

C19_Witness ==
    /\ wPhase = "stopping"
    /\ wStatus = "stopped"
    /\ wTaken # <<>>
    /\ wQueue = <<>>
    /\ wHandler

\* C20: every invocation of the advertisement-received handler and of the
\* value-changed handler returns Ok to the dispatcher.
C20_CallbacksAlwaysOk ==
    /\ wLast.op = "advert" => wLast.res = "ok"
    /\ (last.op = "notify" /\ last.res # "lost") => last.res = "ok"

\* C21: when the disable-notify write attempted by the release of a
\* notify-fed handle has failed, at the request or at the completion of
\* the operation, the failure has been logged; the release ends normally.
C21_DisableFailureLogged ==
    (last.op = "drop" /\ last.cccd = 1) =>
        /\ last.res = "ok"
        /\ phase = "dropped"
        /\ ~cccdWrites[Len(cccdWrites)].ok => "drop" \in errorLogs

\* the properties call returned a set, and the set contains NOTIFY
DecodesWithNotify(props) ==
    /\ props # None
    /\ (props[1] \div NOTIFY) % 2 = 1

\* the handle has been built (and possibly released since)
Built == phase \in {"live", "dropped"}

\* C22: the constructor takes the notify path exactly when its properties
\* call returns a set containing NOTIFY, and builds a poll-fed handle
\* otherwise.  A built handle is notify-fed exactly when its construction
\* wrote the configuration descriptor and registered the handler, both of
\* which stay on record, so its mode is the one chosen then; a notify-fed
\* handle has issued no value read; a poll-fed handle has written no
\* configuration descriptor, at construction or at release, and has
\* registered no handler.
C22_ModeFixed ==
    /\ last.op = "new" =>
          /\ (phase = "live") <=> ~DecodesWithNotify(properties(last.propsOk))
          /\ phase = "live" => ~hasRx
    /\ (Built /\ hasRx) =>
          /\ valueReads = 0
          /\ DecodesWithNotify(from_bits(rawProps))
          /\ handlerInstalled
          /\ cccdWrites # <<>>
          /\ cccdWrites[1] = [value |-> "Notify", ok |-> TRUE]
    /\ (Built /\ ~hasRx) =>
          /\ cccdWrites = <<>>
          /\ ~handlerInstalled
          /\ deviceCccd = "None"

C22_Witness ==
    /\ phase = "dropped"
    /\ hasRx
    /\ steps = 2
    /\ delivered # <<>>
    /\ valueReads = 0
    /\ contains(from_bits(rawProps)[1], READ)

\* C23: for a notify-fed handle that was built, no notification has been
\* dispatched while no value-changed handler was installed.
C23_NoNotificationLost ==
    (phase \in {"live", "dropped"} /\ hasRx) => ~notifyLost

====
